---- MODULE Spec2Model ----
(***************************************************************************)
(* Model of pkg/handler/flows.go: the GetFlows HTTP handler.  A request's  *)
(* query parameters are parsed (start time, limit, filter groups), one     *)
(* query is built per filter group, the queries are fetched from the log   *)
(* backend (one fetch, or one concurrent fetch per group) and the results  *)
(* are merged into one capped response.                                    *)
(*                                                                         *)
(* Strings are sequences of one-character strings, so that splitting,      *)
(* unescaping, parsing and formatting are computed, not assumed.           *)
(***************************************************************************)
EXTENDS Integers, Sequences, FiniteSets, TLC

\* ------------------------------------------------------------------ bounds
\* longest raw filters string of the parser specification
MaxLen == 4
\* longest timeRange string of the start-time specification
MaxNumLen == 3
\* the clock reads 0..MaxNow (Unix seconds)
MaxNow == 2
\* the backend holds records 1..MaxRec
MaxRec == 3
\* a backend answer carries at most MaxBatch records
MaxBatch == 2

\* ------------------------------------------------------- program constants
StatusBadRequest == 400
StatusOK == 200

\* ----------------------------------------------------------------- strings
Str(alphabet, n) == UNION {[1..k -> alphabet] : k \in 0..n}

\* strings.Split(s, sep) for a one-byte separator: the parts between the
\* occurrences of sep, in order; a string without sep is its only part.
RECURSIVE SplitFrom(_, _, _)
SplitFrom(s, sep, cur) ==
    IF s = <<>> THEN <<cur>>
    ELSE IF Head(s) = sep THEN <<cur>> \o SplitFrom(Tail(s), sep, <<>>)
    ELSE SplitFrom(Tail(s), sep, Append(cur, Head(s)))

Split(s, sep) == SplitFrom(s, sep, <<>>)

\* ---------------------------------------------------------- url.QueryUnescape
HexUpper == <<"0","1","2","3","4","5","6","7","8","9","A","B","C","D","E","F">>
HexLower == <<"0","1","2","3","4","5","6","7","8","9","a","b","c","d","e","f">>

ishex(c) == \E v \in 1..16 : c = HexUpper[v] \/ c = HexLower[v]

unhex(c) == (CHOOSE v \in 1..16 : c = HexUpper[v] \/ c = HexLower[v]) - 1

\* the printable ASCII characters, byte 32 first
Printable ==
    <<" ","!","QUOTE","#","$","%","&","'","(",")","*","+",",","-",".","/",
      "0","1","2","3","4","5","6","7","8","9",":",";","<","=",">","?",
      "@","A","B","C","D","E","F","G","H","I","J","K","L","M","N","O",
      "P","Q","R","S","T","U","V","W","X","Y","Z","[","BACKSLASH","]","^","_",
      "BACKTICK","a","b","c","d","e","f","g","h","i","j","k","l","m","n","o",
      "p","q","r","s","t","u","v","w","x","y","z","{","|","}","~">>

\* the character of a byte; the bytes outside printable ASCII that two hex
\* digits of the model's alphabets can spell are named by their value
Chr(b) ==
    IF b \in 32..126 THEN Printable[b - 31]
    ELSE IF b = 199 THEN "0xC7"
    ELSE IF b = 204 THEN "0xCC"
    ELSE "0x??"

\* the first pass of unescape: every '%' is followed by two hex digits
RECURSIVE UnescapeOk(_)
UnescapeOk(s) ==
    IF s = <<>> THEN TRUE
    ELSE IF Head(s) = "%"
         THEN /\ Len(s) >= 3
              /\ ishex(s[2])
              /\ ishex(s[3])
              /\ UnescapeOk(SubSeq(s, 4, Len(s)))
         ELSE UnescapeOk(Tail(s))

\* the second pass: %XY becomes the byte 16*X+Y, '+' becomes a space
RECURSIVE UnescapeVal(_)
UnescapeVal(s) ==
    IF s = <<>> THEN <<>>
    ELSE IF Head(s) = "%"
         THEN <<Chr(16 * unhex(s[2]) + unhex(s[3]))>> \o UnescapeVal(SubSeq(s, 4, Len(s)))
         ELSE IF Head(s) = "+"
              THEN <<" ">> \o UnescapeVal(Tail(s))
              ELSE <<Head(s)>> \o UnescapeVal(Tail(s))

QueryUnescape(s) ==
    IF UnescapeOk(s) THEN [ok |-> TRUE, val |-> UnescapeVal(s)]
    ELSE [ok |-> FALSE, val |-> <<>>]

\* ------------------------------------------------------------- parseFilters
\* a pair is kept when splitting the filter on '=' gave exactly two parts
KeepPairLoose(pair) == Len(pair) >= 2

KeepPair(pair) == Len(pair) = 2

\* the inner loop: the kept pairs of one group's filters, in order
RECURSIVE andFiltersOf(_)
andFiltersOf(filters) ==
    IF filters = <<>> THEN <<>>
    ELSE LET pair == Split(Head(filters), "=")
         IN  (IF KeepPair(pair) THEN <<pair>> ELSE <<>>) \o andFiltersOf(Tail(filters))

\* an outer loop that leaves out the groups without a pair
RECURSIVE parsedNonEmptyOf(_)
parsedNonEmptyOf(groups) ==
    IF groups = <<>> THEN <<>>
    ELSE LET g == andFiltersOf(Split(Head(groups), "&"))
         IN  (IF g = <<>> THEN <<>> ELSE <<g>>) \o parsedNonEmptyOf(Tail(groups))

\* the outer loop: one entry per group, whatever the group holds
RECURSIVE parsedOf(_)
parsedOf(groups) ==
    IF groups = <<>> THEN <<>>
    ELSE <<andFiltersOf(Split(Head(groups), "&"))>> \o parsedOf(Tail(groups))

parseFiltersSkipEmpty(raw) ==
    LET u == QueryUnescape(raw)
    IN  IF ~u.ok THEN [ok |-> FALSE, groups |-> <<>>, err |-> <<"invalid URL escape">>]
        ELSE [ok |-> TRUE, groups |-> parsedNonEmptyOf(Split(u.val, "|")), err |-> <<>>]

parseFilters(raw) ==
    LET u == QueryUnescape(raw)
    IN  IF ~u.ok THEN [ok |-> FALSE, groups |-> <<>>, err |-> <<"invalid URL escape">>]
        ELSE [ok |-> TRUE, groups |-> parsedOf(Split(u.val, "|")), err |-> <<>>]

\* ------------------------------------------------- strconv.ParseInt(s, 10, 64)
Digits == SubSeq(HexUpper, 1, 10)

isdigit(c) == \E v \in 1..10 : c = Digits[v]

\* ParseUint's loop: n = n*10 + d, a byte that is no digit is a syntax error
\* (the strings of the model are far too short to leave 64 bits)
RECURSIVE ParseUintFrom(_, _)
ParseUintFrom(s, n) ==
    IF s = <<>> THEN [ok |-> TRUE, val |-> n]
    ELSE IF ~isdigit(Head(s)) THEN [ok |-> FALSE, val |-> 0]
    ELSE ParseUintFrom(Tail(s), n * 10 + unhex(Head(s)))

ParseUint(s) ==
    IF s = <<>> THEN [ok |-> FALSE, val |-> 0] ELSE ParseUintFrom(s, 0)

ParseInt(s) ==
    IF s = <<>> THEN [ok |-> FALSE, val |-> 0]
    ELSE IF Head(s) = "+" THEN ParseUint(Tail(s))
    ELSE IF Head(s) = "-"
         THEN LET u == ParseUint(Tail(s)) IN [ok |-> u.ok, val |-> 0 - u.val]
         ELSE ParseUint(s)

\* ------------------------------------------------- strconv.FormatInt(i, 10)
RECURSIVE FormatUint(_)
FormatUint(n) ==
    IF n < 10 THEN <<Digits[n + 1]>>
    ELSE FormatUint(n \div 10) \o <<Digits[(n % 10) + 1]>>

FormatInt(i) == IF i < 0 THEN <<"-">> \o FormatUint(0 - i) ELSE FormatUint(i)

\* ------------------------------------------------------------ getStartTime
\* a start time that lets the time range win over an explicit start
getStartTimeRangeFirst(p, unixNow) ==
    IF Len(p.timeRange) > 0
    THEN LET r == ParseInt(p.timeRange)
         IN  IF ~r.ok
             THEN [start |-> <<>>, err |-> <<"Could not parse time range: ", "invalid syntax">>]
             ELSE [start |-> FormatInt(unixNow - r.val), err |-> <<>>]
    ELSE [start |-> p.startTime, err |-> <<>>]

\* the start of the queried interval and an error (<<>> is nil)
getStartTime(p, unixNow) ==
    IF Len(p.startTime) = 0 /\ Len(p.timeRange) > 0
    THEN LET r == ParseInt(p.timeRange)
         IN  IF ~r.ok
             THEN [start |-> <<>>, err |-> <<"Could not parse time range: ", "invalid syntax">>]
             ELSE [start |-> FormatInt(unixNow - r.val), err |-> <<>>]
    ELSE [start |-> p.startTime, err |-> <<>>]

\* ----------------------------------------------------------------- getLimit
\* a limit that reads an unparsable value as "no limit"
getLimitLenient(p) ==
    IF Len(p.limit) > 0 /\ ParseInt(p.limit).ok
    THEN [limit |-> p.limit, reqLimit |-> ParseInt(p.limit).val, err |-> <<>>]
    ELSE [limit |-> p.limit, reqLimit |-> 0, err |-> <<>>]

\* the limit as a string (for the query) and as an integer (for the merger)
getLimit(p) ==
    IF Len(p.limit) > 0
    THEN LET l == ParseInt(p.limit)
         IN  IF ~l.ok
             THEN [limit |-> <<>>, reqLimit |-> 0,
                   err |-> <<"Could not parse limit: ", "invalid syntax">>]
             ELSE [limit |-> p.limit, reqLimit |-> l.val, err |-> <<>>]
    ELSE [limit |-> p.limit, reqLimit |-> 0, err |-> <<>>]

\* ----------------------------------------------------- loki.FlowQueryBuilder
\* the filter keys the query builder knows
KnownKeys == {<<"k">>}

NewFlowQueryBuilder(st, en, lim, rep) ==
    [start |-> st, end |-> en, limit |-> lim, reporter |-> rep, filters |-> <<>>]

\* Filters' error: a pair whose key the builder does not know (<<>> is nil)
FiltersErr(group) ==
    IF \E i \in 1..Len(group) : group[i][1] \notin KnownKeys
    THEN <<"unknown filter key">>
    ELSE <<>>

Filters(qb, group) == [qb EXCEPT !.filters = qb.filters \o group]

Build(qb) == qb

\* --------------------------------------------------------- loki.StreamMerger
NewStreamMerger(l) == [limit |-> l, records |-> <<>>]

InSeq(x, seq) == \E i \in 1..Len(seq) : seq[i] = x

\* Add: the records of the batch in order; a record already held is not held
\* twice, and with a positive limit no record is added once it is reached
RECURSIVE MergerAdd(_, _)
MergerAdd(m, batch) ==
    IF batch = <<>> THEN m
    ELSE IF InSeq(Head(batch), m.records) \/ (m.limit > 0 /\ Len(m.records) >= m.limit)
         THEN MergerAdd(m, Tail(batch))
         ELSE MergerAdd([m EXCEPT !.records = Append(m.records, Head(batch))], Tail(batch))

MergerGet(m) == m.records

\* ------------------------------------------------------------ the backend
\* the answers of the backend: up to MaxBatch distinct records, oldest first
Ascending(S) ==
    CHOOSE q \in [1..Cardinality(S) -> S] : \A i, j \in 1..Cardinality(S) : i < j => q[i] < q[j]

Batches == {Ascending(S) : S \in {T \in SUBSET (1..MaxRec) : Cardinality(T) <= MaxBatch}}

\* the status codes of a failing fetch
FetchErrorCodes == {500, 503}

\* ------------------------------------------------------------------ inputs
FilterAlphabet == {"k", "=", "&", "|", "%", "7", "C", "+"}
NumAlphabet == {"0", "1", "-", "+", "x"}

StartInputs == {<<>>, <<"5">>}
\* startTime and timeRange of a request: both absent, an unparsable range
\* alone, an explicit start beside an unparsable range
TimeInputs == {<< <<>>, <<>> >>, << <<>>, <<"x">> >>, << <<"5">>, <<"x">> >>}
LimitInputs == {<<>>, <<"1">>, <<"x">>}
EndInputs == {<<"9">>}
ReporterInputs == {<<"s">>}
FilterInputs ==
    { <<>>,
      <<"k","=","7">>,
      <<"k","=","7","&","k","k">>,
      <<"k","=","7","|","k","=","C">>,
      <<"k","=","7","|","k","k">>,
      <<"k","=","7","|","k","k","=","7">>,
      <<"k","k","=","7">>,
      <<"%">>,
      <<"k","=","7","%","7","C","k","=","C">>,
      <<"k","=","7","|","k","=","C","|","k","=","7">> }

\* ------------------------------------------------------------------- state
VARIABLES
    params,        \* the request's query parameters
    now,           \* <<t>> once time.Now().Unix() was read as t
    pc,            \* where getFlows stands
    start,         \* getStartTime's result
    limit,         \* getLimit's string result
    reqLimit,      \* getLimit's integer result
    filterGroups,  \* parseFilters' result
    merger,        \* the stream merger
    queries,       \* the queries built so far
    via,           \* the fetch function getFlows called
    fetches,       \* the backend fetches of this request
    errChan,       \* the errors of the failed fetches, as they arrived
    ret,           \* <<[code, err]>> once the fetch function has returned
    calls,         \* the queries the backend client received, in order
    result         \* what getFlows returned

vars == <<params, now, pc, start, limit, reqLimit, filterGroups, merger, queries,
          via, fetches, errChan, ret, calls, result>>

NoResult == [resp |-> <<>>, code |-> 0, err |-> <<>>]

\* the state of a request at the given line of getFlows, nothing fetched yet
Entry(p, at) ==
    /\ params = p
    /\ now = <<>>
    /\ pc = at
    /\ start = <<>>
    /\ limit = <<>>
    /\ reqLimit = 0
    /\ filterGroups = <<>>
    /\ merger = NewStreamMerger(0)
    /\ queries = <<>>
    /\ via = "none"
    /\ fetches = <<>>
    /\ errChan = <<>>
    /\ ret = <<>>
    /\ calls = <<>>
    /\ result = NoResult

Init ==
    \E ti \in TimeInputs, li \in LimitInputs,
       en \in EndInputs, rep \in ReporterInputs, fi \in FilterInputs :
        Entry([startTime |-> ti[1], endTime |-> en, timeRange |-> ti[2], limit |-> li,
               reporter |-> rep, filters |-> fi], "getStartTime")

\* a request with every raw filters string up to MaxLen, about to be parsed
InitParse ==
    \E fi \in Str(FilterAlphabet, MaxLen) :
        Entry([startTime |-> <<>>, endTime |-> <<>>, timeRange |-> <<>>, limit |-> <<>>,
               reporter |-> <<>>, filters |-> fi], "parseFilters")

\* a request with every time range string up to MaxNumLen
InitTime ==
    \E st \in StartInputs, tr \in Str(NumAlphabet, MaxNumLen) :
        Entry([startTime |-> st, endTime |-> <<>>, timeRange |-> tr, limit |-> <<>>,
               reporter |-> <<>>, filters |-> <<>>], "getStartTime")

\* ---------------------------------------------------------------- getFlows
\* return nil, http.StatusBadRequest, err
BadRequest(e) == [resp |-> <<>>, code |-> StatusBadRequest, err |-> e]

\* a failed fetch that still hands out what the merger holds
FetchErrorPartial(code, e) ==
    [resp |-> <<MergerGet(merger)>>, code |-> code,
     err |-> <<"Error while fetching flows from Loki: ">> \o e]

\* return nil, code, errors.New("Error while fetching flows from Loki: " + ...)
FetchError(code, e) ==
    [resp |-> <<>>, code |-> code,
     err |-> <<"Error while fetching flows from Loki: ">> \o e]

\* the fan-out decision
UseParallelOverTwo(groups) == Len(groups) > 2

UseParallel(groups) == Len(groups) > 1

\* a merger that is built without the request's limit
newMergerNoLimit == NewStreamMerger(0)

\* merger := loki.NewStreamMerger(reqLimit)
newMerger == NewStreamMerger(reqLimit)

\* getStartTime reads the clock only to turn a valid time range into a start
ReadsClock(p) ==
    /\ Len(p.startTime) = 0
    /\ Len(p.timeRange) > 0
    /\ ParseInt(p.timeRange).ok

GetStartTimeStep ==
    /\ pc = "getStartTime"
    /\ \E t \in 0..MaxNow :
        LET r == getStartTime(params, t)
        IN  /\ now' = IF ReadsClock(params) THEN <<t>> ELSE now
            /\ IF r.err # <<>>
               THEN /\ result' = BadRequest(r.err)
                    /\ pc' = "done"
                    /\ start' = start
               ELSE /\ start' = r.start
                    /\ pc' = "getLimit"
                    /\ result' = result
    /\ UNCHANGED <<params, limit, reqLimit, filterGroups, merger, queries, via,
                   fetches, errChan, ret, calls>>

GetLimitStep ==
    /\ pc = "getLimit"
    /\ LET r == getLimit(params)
       IN  IF r.err # <<>>
           THEN /\ result' = BadRequest(r.err)
                /\ pc' = "done"
                /\ UNCHANGED <<limit, reqLimit>>
           ELSE /\ limit' = r.limit
                /\ reqLimit' = r.reqLimit
                /\ pc' = "parseFilters"
                /\ result' = result
    /\ UNCHANGED <<params, now, start, filterGroups, merger, queries, via,
                   fetches, errChan, ret, calls>>

ParseFiltersStep ==
    /\ pc = "parseFilters"
    /\ LET f == parseFilters(params.filters)
       IN  IF ~f.ok
           THEN /\ result' = BadRequest(f.err)
                /\ pc' = "done"
                /\ UNCHANGED <<filterGroups, merger>>
           ELSE /\ filterGroups' = f.groups
                /\ merger' = newMerger
                /\ pc' = "build"
                /\ result' = result
    /\ UNCHANGED <<params, now, start, limit, reqLimit, queries, via,
                   fetches, errChan, ret, calls>>

\* the query of one group, and the builder's error for it
GroupQuery(group) ==
    Build(Filters(NewFlowQueryBuilder(start, params.endTime, limit, params.reporter), group))

\* an iteration of the loop that also sends the query it has just built
BuildParallelQueryEager ==
    /\ pc = "build"
    /\ UseParallel(filterGroups)
    /\ Len(queries) < Len(filterGroups)
    /\ LET group == filterGroups[Len(queries) + 1]
       IN  IF FiltersErr(group) # <<>>
           THEN /\ result' = BadRequest(<<"Can't build query: ">> \o FiltersErr(group))
                /\ pc' = "done"
                /\ UNCHANGED <<queries, calls>>
           ELSE /\ queries' = Append(queries, GroupQuery(group))
                /\ calls' = Append(calls, GroupQuery(group))
                /\ UNCHANGED <<pc, result>>
    /\ UNCHANGED <<params, now, start, limit, reqLimit, filterGroups, merger, via,
                   fetches, errChan, ret>>

\* one iteration of the loop over the filter groups
BuildParallelQuery ==
    /\ pc = "build"
    /\ UseParallel(filterGroups)
    /\ Len(queries) < Len(filterGroups)
    /\ LET group == filterGroups[Len(queries) + 1]
       IN  IF FiltersErr(group) # <<>>
           THEN /\ result' = BadRequest(<<"Can't build query: ">> \o FiltersErr(group))
                /\ pc' = "done"
                /\ UNCHANGED queries
           ELSE /\ queries' = Append(queries, GroupQuery(group))
                /\ UNCHANGED <<pc, result>>
    /\ UNCHANGED <<params, now, start, limit, reqLimit, filterGroups, merger, via,
                   fetches, errChan, ret, calls>>

\* the single query: the filters of the first group, when there is one
BuildSingleQuery ==
    /\ pc = "build"
    /\ ~UseParallel(filterGroups)
    /\ queries = <<>>
    /\ LET group == IF Len(filterGroups) > 0 THEN filterGroups[1] ELSE <<>>
       IN  IF FiltersErr(group) # <<>>
           THEN /\ result' = BadRequest(FiltersErr(group))
                /\ pc' = "done"
                /\ UNCHANGED queries
           ELSE /\ queries' = <<GroupQuery(group)>>
                /\ UNCHANGED <<pc, result>>
    /\ UNCHANGED <<params, now, start, limit, reqLimit, filterGroups, merger, via,
                   fetches, errChan, ret, calls>>

Spawned(q) == [st |-> "spawned", query |-> q, batch |-> <<>>, code |-> 0]

\* code, err := fetchParallel(client, queries, merger): one task per query
CallFetchParallel ==
    /\ pc = "build"
    /\ UseParallel(filterGroups)
    /\ Len(queries) = Len(filterGroups)
    /\ via' = "fetchParallel"
    /\ fetches' = [i \in 1..Len(queries) |-> Spawned(queries[i])]
    /\ pc' = "fetch"
    /\ UNCHANGED <<params, now, start, limit, reqLimit, filterGroups, merger, queries,
                   errChan, ret, calls, result>>

\* code, err := fetchSingle(client, query, merger): the call is made at once
CallFetchSingle ==
    /\ pc = "build"
    /\ ~UseParallel(filterGroups)
    /\ Len(queries) = 1
    /\ via' = "fetchSingle"
    /\ fetches' = <<[Spawned(queries[1]) EXCEPT !.st = "inflight"]>>
    /\ calls' = Append(calls, queries[1])
    /\ pc' = "fetch"
    /\ UNCHANGED <<params, now, start, limit, reqLimit, filterGroups, merger, queries,
                   errChan, ret, result>>

\* a task of fetchParallel sends its query to the backend
FetchStart(i) ==
    /\ fetches[i].st = "spawned"
    /\ fetches' = [fetches EXCEPT ![i].st = "inflight"]
    /\ calls' = Append(calls, fetches[i].query)
    /\ UNCHANGED <<params, now, pc, start, limit, reqLimit, filterGroups, merger, queries,
                   via, errChan, ret, result>>

\* the backend answers a fetch: the batch is fed to the merger, one fetch at a time
FetchOk(i, batch) ==
    /\ fetches[i].st = "inflight"
    /\ fetches' = [fetches EXCEPT ![i].st = "ok", ![i].batch = batch]
    /\ merger' = MergerAdd(merger, batch)
    /\ UNCHANGED <<params, now, pc, start, limit, reqLimit, filterGroups, queries,
                   via, errChan, ret, calls, result>>

\* a fetch fails with a status code
FetchFail(i, code) ==
    /\ fetches[i].st = "inflight"
    /\ fetches' = [fetches EXCEPT ![i].st = "failed", ![i].code = code]
    /\ errChan' = Append(errChan, [code |-> code, err |-> <<"backend error">>])
    /\ UNCHANGED <<params, now, pc, start, limit, reqLimit, filterGroups, merger, queries,
                   via, ret, calls, result>>

\* a join that does not wait
AllCompleteNoWait(fs) == TRUE

\* every fetch has ended
AllComplete(fs) == \A i \in 1..Len(fs) : fs[i].st \in {"ok", "failed"}

\* the fetch function returns once its fetches have ended: the first error, or OK
FetchReturn ==
    /\ pc = "fetch"
    /\ ret = <<>>
    /\ AllComplete(fetches)
    /\ ret' = <<IF errChan # <<>> THEN Head(errChan)
                ELSE [code |-> StatusOK, err |-> <<>>]>>
    /\ UNCHANGED <<params, now, pc, start, limit, reqLimit, filterGroups, merger, queries,
                   via, fetches, errChan, calls, result>>

\* an end of getFlows that does not wait for the fetch function to return
GetFlowsReturnEarly ==
    /\ pc = "fetch"
    /\ result' = IF ret # <<>> /\ ret[1].err # <<>>
                 THEN FetchError(ret[1].code, ret[1].err)
                 ELSE [resp |-> <<MergerGet(merger)>>, code |-> StatusOK, err |-> <<>>]
    /\ pc' = "done"
    /\ UNCHANGED <<params, now, start, limit, reqLimit, filterGroups, merger, queries,
                   via, fetches, errChan, ret, calls>>

\* the end of getFlows: the fetch's error, or merger.Get() with 200
GetFlowsReturn ==
    /\ pc = "fetch"
    /\ ret # <<>>
    /\ result' = IF ret[1].err # <<>>
                 THEN FetchError(ret[1].code, ret[1].err)
                 ELSE [resp |-> <<MergerGet(merger)>>, code |-> StatusOK, err |-> <<>>]
    /\ pc' = "done"
    /\ UNCHANGED <<params, now, start, limit, reqLimit, filterGroups, merger, queries,
                   via, fetches, errChan, ret, calls>>

Next ==
    \/ GetStartTimeStep
    \/ GetLimitStep
    \/ ParseFiltersStep
    \/ BuildParallelQuery
    \/ BuildSingleQuery
    \/ CallFetchParallel
    \/ CallFetchSingle
    \/ \E i \in 1..Len(fetches) : FetchStart(i)
    \/ \E i \in 1..Len(fetches), batch \in Batches : FetchOk(i, batch)
    \/ \E i \in 1..Len(fetches), code \in FetchErrorCodes : FetchFail(i, code)
    \/ FetchReturn
    \/ GetFlowsReturn

Spec == Init /\ [][Next]_vars

\* parseFilters on every raw string
NextParse == ParseFiltersStep

SpecParse == InitParse /\ [][NextParse]_vars

\* getStartTime on every time range string
NextTime == GetStartTimeStep

SpecTime == InitTime /\ [][NextTime]_vars

\* ================================================================ properties
\* What the properties say about strings is stated by positions, apart from
\* the recursive scans the operations above are modelled with.

\* the positions of a separator, and its k-th position
SepPos(s, sep) == {i \in 1..Len(s) : s[i] = sep}

NthPos(P, k) == CHOOSE q \in P : Cardinality({r \in P : r <= q}) = k

\* the segments between the separators, in order
Segments(s, sep) ==
    LET P == SepPos(s, sep)
        n == Cardinality(P)
        lo(k) == IF k = 1 THEN 0 ELSE NthPos(P, k - 1)
        hi(k) == IF k = n + 1 THEN Len(s) + 1 ELSE NthPos(P, k)
    IN  [k \in 1..(n + 1) |-> SubSeq(s, lo(k) + 1, hi(k) - 1)]

\* a candidate with exactly one '=', and the key and value around it
OneEquals(c) == Cardinality(SepPos(c, "=")) = 1

KeyValue(c) ==
    LET q == NthPos(SepPos(c, "="), 1)
    IN  <<SubSeq(c, 1, q - 1), SubSeq(c, q + 1, Len(c))>>

\* a candidate with exactly one '=' and something on both sides of it
OneEqualsNonEmpty(c) == OneEquals(c) /\ KeyValue(c)[1] # <<>> /\ KeyValue(c)[2] # <<>>

PairsOf(kept) == [i \in 1..Len(kept) |-> KeyValue(kept[i])]

\* the groups of a decoded string when the candidates with one '=' are kept
GroupsKeepingOneEquals(d) ==
    [g \in 1..Len(Segments(d, "|")) |->
        PairsOf(SelectSeq(Segments(Segments(d, "|")[g], "&"), OneEquals))]

\* the groups when only candidates with a non-empty key and value are kept
GroupsKeepingNonEmpty(d) ==
    [g \in 1..Len(Segments(d, "|")) |->
        PairsOf(SelectSeq(Segments(Segments(d, "|")[g], "&"), OneEqualsNonEmpty))]

\* every '%' of the raw string is followed by two hex digits
WellEscaped(s) ==
    \A i \in 1..Len(s) : s[i] = "%" => (i + 2 <= Len(s) /\ ishex(s[i + 1]) /\ ishex(s[i + 2]))

\* a decimal integer: an optional sign and at least one digit
DecBody(s) == IF s # <<>> /\ s[1] \in {"+", "-"} THEN Tail(s) ELSE s

IsInteger(s) ==
    /\ DecBody(s) # <<>>
    /\ \A i \in 1..Len(DecBody(s)) :
           DecBody(s)[i] \in {"0","1","2","3","4","5","6","7","8","9"}

RECURSIVE Pow10(_)
Pow10(n) == IF n = 0 THEN 1 ELSE 10 * Pow10(n - 1)

DigitOf(c) == CHOOSE v \in 0..9 : Digits[v + 1] = c

RECURSIVE PlaceSum(_, _)
PlaceSum(b, i) ==
    IF i > Len(b) THEN 0 ELSE DigitOf(b[i]) * Pow10(Len(b) - i) + PlaceSum(b, i + 1)

IntValue(s) == IF s[1] = "-" THEN 0 - PlaceSum(DecBody(s), 1) ELSE PlaceSum(DecBody(s), 1)

\* the decimal form FormatInt gives: no '+', no leading zero, no "-0"
Canonical(s) ==
    /\ IsInteger(s)
    /\ s[1] # "+"
    /\ (Len(DecBody(s)) > 1 => DecBody(s)[1] # "0")
    /\ (s[1] = "-" => DecBody(s) # <<"0">>)

\* the request's parameters that make validation fail
BadTimeRange(p) == Len(p.timeRange) > 0 /\ ~IsInteger(p.timeRange)

BadLimit(p) == Len(p.limit) > 0 /\ ~IsInteger(p.limit)

BadEscape(p) == ~WellEscaped(p.filters)

BuilderRejects(p) ==
    /\ WellEscaped(p.filters)
    /\ LET gs == GroupsKeepingOneEquals(UnescapeVal(p.filters))
       IN  \E g \in 1..Len(gs) : \E i \in 1..Len(gs[g]) : gs[g][i][1] \notin KnownKeys

\* parseFilters has returned its groups to getFlows
Parsed == pc \in {"build", "fetch"} \/ (pc = "done" /\ via # "none")

\* getFlows answered (nil, 400, error)
Is400 == result.resp = <<>> /\ result.code = StatusBadRequest /\ result.err # <<>>

\* the query of a group: the request's start, end, limit and reporter and the
\* group's pairs
QueryFor(group) ==
    [start |-> start, end |-> params.endTime, limit |-> limit,
     reporter |-> params.reporter, filters |-> group]

Count(seq, x) == Cardinality({j \in 1..Len(seq) : seq[j] = x})

\* ---------------------------------------------------------------------- C1
\* C1: with more than one parsed filter group getFlows calls the parallel
\* fetch with one query per group, in group order, and the backend receives
\* each of them exactly once; otherwise it calls the single fetch with one
\* query, built from the lone group's pairs, or from no pair when there is no
\* group.
C1_OneQueryPerGroup ==
    /\ via = "fetchParallel" =>
          /\ Len(filterGroups) > 1
          /\ queries = [i \in 1..Len(filterGroups) |-> QueryFor(filterGroups[i])]
          /\ Len(fetches) = Len(queries)
          /\ \A i \in 1..Len(fetches) : fetches[i].query = queries[i]
    /\ via = "fetchSingle" =>
          /\ Len(filterGroups) <= 1
          /\ queries = <<QueryFor(IF Len(filterGroups) > 0 THEN filterGroups[1] ELSE <<>>)>>
          /\ Len(fetches) = 1
          /\ calls = queries
    /\ Len(calls) <= Len(queries)
    /\ ret # <<>> =>
          /\ Len(calls) = Len(queries)
          /\ \A i \in 1..Len(queries) : Count(calls, queries[i]) = Count(queries, queries[i])

\* three groups were fetched in parallel and the request succeeded
C1_Witness ==
    /\ pc = "done"
    /\ via = "fetchParallel"
    /\ Len(filterGroups) = 3
    /\ Len(calls) = 3
    /\ result.code = StatusOK

\* ---------------------------------------------------------------------- C2
\* C2: when a fetch of the parallel path failed, getFlows returns a nil
\* response, the status code of a failed fetch (the first that failed) and an
\* error that starts with "Error while fetching flows from Loki: ", whatever
\* the merger has taken from the fetches that succeeded.
C2_ParallelFailureFailsAll ==
    (pc = "done" /\ via = "fetchParallel"
        /\ \E i \in 1..Len(fetches) : fetches[i].st = "failed")
    => /\ result.resp = <<>>
       /\ result.code = errChan[1].code
       /\ \E i \in 1..Len(fetches) :
              fetches[i].st = "failed" /\ fetches[i].code = result.code
       /\ result.err # <<>>
       /\ result.err[1] = "Error while fetching flows from Loki: "

\* one fetch failed after a sibling's records were merged
C2_Witness ==
    /\ pc = "done"
    /\ via = "fetchParallel"
    /\ \E i \in 1..Len(fetches) : fetches[i].st = "failed"
    /\ \E i \in 1..Len(fetches) : fetches[i].st = "ok" /\ fetches[i].batch # <<>>
    /\ merger.records # <<>>
    /\ result.resp = <<>>

\* ---------------------------------------------------------------------- C3
\* C3: with a request limit L > 0 the merger never holds more than L records,
\* whatever the batches and the order in which the fetches end; with L = 0
\* every record of every batch that was fed is held.
C3_MergerWithinLimit ==
    /\ reqLimit > 0 => Len(merger.records) <= reqLimit
    /\ reqLimit = 0 =>
          \A i \in 1..Len(fetches) :
              fetches[i].st = "ok" =>
                  \A j \in 1..Len(fetches[i].batch) :
                      InSeq(fetches[i].batch[j], merger.records)

\* limit 1 and three different batches of two records each: the merger holds one
C3_Witness ==
    /\ reqLimit = 1
    /\ Len(fetches) = 3
    /\ \A i \in 1..Len(fetches) : fetches[i].st = "ok" /\ Len(fetches[i].batch) = 2
    /\ \A i, j \in 1..Len(fetches) : i # j => fetches[i].batch # fetches[j].batch
    /\ Len(merger.records) = 1

\* ---------------------------------------------------------------------- C4
\* C4: once getFlows has returned, every fetch it started has ended (none is
\* spawned or in flight, so none can still feed the merger), and a response
\* it returned is the merger's content after the last fetch.
C4_JoinBeforeGet ==
    pc = "done" =>
        /\ \A i \in 1..Len(fetches) : fetches[i].st \in {"ok", "failed"}
        /\ Len(calls) = Len(fetches)
        /\ result.resp # <<>> => result.resp[1] = merger.records

\* a parallel request of three fetches returned its merged records
C4_Witness ==
    /\ pc = "done"
    /\ via = "fetchParallel"
    /\ Len(fetches) = 3
    /\ result.resp # <<>>
    /\ Len(result.resp[1]) >= 2

\* ---------------------------------------------------------------------- C5
\* C5 as claimed: the parsed groups are the '|' segments of the decoded
\* string, each holding the pairs of its '&' candidates that split on '=' into
\* exactly two non-empty parts.
C5_KeepsOnlyNonEmptyPairs ==
    (pc # "parseFilters" /\ WellEscaped(params.filters))
    => filterGroups = GroupsKeepingNonEmpty(UnescapeVal(params.filters))

\* C5 as amended: the parsed groups are the '|' segments of the decoded
\* string, in order, each holding in order the pairs of its '&' candidates
\* that contain exactly one '=' (the key or the value may be empty); every
\* other candidate is dropped and no error is returned.
C5_KeepsPairsWithOneEquals ==
    (pc # "parseFilters" /\ WellEscaped(params.filters))
    => /\ filterGroups = GroupsKeepingOneEquals(UnescapeVal(params.filters))
       /\ pc = "build"
       /\ result = NoResult

\* two groups, a candidate dropped and a pair kept with an empty value
C5_Witness ==
    /\ pc = "build"
    /\ Len(filterGroups) = 2
    /\ \E c \in 1..Len(Segments(UnescapeVal(params.filters), "&")) :
           ~OneEquals(Segments(UnescapeVal(params.filters), "&")[c])
    /\ \E g \in 1..Len(filterGroups) : \E i \in 1..Len(filterGroups[g]) :
           filterGroups[g][i][2] = <<>>

\* ---------------------------------------------------------------------- C6
\* C6 as claimed: for an empty filters parameter parseFilters returns zero
\* groups.
C6_EmptyInputZeroGroups ==
    (Parsed /\ params.filters = <<>>) => Len(filterGroups) = 0

\* C6 as amended: for an empty filters parameter parseFilters returns exactly
\* one group, which holds no pair; getFlows sends it through the single fetch,
\* and its query is built with no filter pair.
C6_EmptyInputOneEmptyGroup ==
    (Parsed /\ params.filters = <<>>)
    => /\ filterGroups = << <<>> >>
       /\ via \in {"none", "fetchSingle"}
       /\ \A i \in 1..Len(queries) : queries[i].filters = <<>>
       /\ Len(calls) <= 1
       /\ pc = "done" => Len(calls) = 1 /\ calls[1].filters = <<>>

\* a request without filters was answered from a single unfiltered query
C6_Witness ==
    /\ params.filters = <<>>
    /\ pc = "done"
    /\ via = "fetchSingle"
    /\ calls # <<>>
    /\ result.code = StatusOK

\* ---------------------------------------------------------------------- C7
\* C7: getStartTime returns a non-empty startTime as it is, whatever the
\* timeRange; with an empty startTime and a timeRange that is a decimal
\* integer r it returns the decimal form of now - r; with both empty it
\* returns the empty start; none of these is an error.
C7_StartTime ==
    pc # "getStartTime" =>
        /\ Len(params.startTime) > 0 =>
              start = params.startTime /\ pc = "getLimit" /\ result = NoResult
        /\ (Len(params.startTime) = 0 /\ IsInteger(params.timeRange)) =>
              /\ now # <<>>
              /\ Canonical(start)
              /\ IntValue(start) = now[1] - IntValue(params.timeRange)
              /\ pc = "getLimit"
              /\ result = NoResult
        /\ (Len(params.startTime) = 0 /\ Len(params.timeRange) = 0) =>
              start = <<>> /\ pc = "getLimit" /\ result = NoResult

\* no startTime, timeRange 11 and the clock at 2: the start is -9
C7_Witness ==
    /\ pc = "getLimit"
    /\ params.startTime = <<>>
    /\ params.timeRange = <<"1", "1">>
    /\ now = <<2>>
    /\ start = <<"-", "9">>

\* ---------------------------------------------------------------------- C8
\* C8 as claimed: a timeRange that is no integer, a limit that is no integer,
\* a filters string that cannot be unescaped or a filter group the query
\* builder rejects makes getFlows return (nil, 400, error); an absent limit
\* gives the empty string and 0.
C8_EveryBadParameterIs400 ==
    /\ (pc = "done" /\ (\/ BadTimeRange(params)
                        \/ BadLimit(params)
                        \/ BadEscape(params)
                        \/ BuilderRejects(params))) => Is400
    /\ (pc \in {"parseFilters", "build", "fetch"} /\ Len(params.limit) = 0)
           => (limit = <<>> /\ reqLimit = 0)

\* C8 as amended: the same, but a timeRange that is no integer fails the
\* request only when startTime is empty (getStartTime does not read timeRange
\* when startTime is given).
C8_ValidationFailureIs400 ==
    /\ (pc = "done" /\ (\/ (BadTimeRange(params) /\ Len(params.startTime) = 0)
                        \/ BadLimit(params)
                        \/ BadEscape(params)
                        \/ BuilderRejects(params))) => Is400
    /\ (pc \in {"parseFilters", "build", "fetch"} /\ Len(params.limit) = 0)
           => (limit = <<>> /\ reqLimit = 0)

\* the only group of a request is rejected by the query builder: 400
C8_Witness ==
    /\ pc = "done"
    /\ Len(filterGroups) = 1
    /\ BuilderRejects(params)
    /\ ~BadLimit(params)
    /\ Is400
    /\ result.err = <<"unknown filter key">>

\* ---------------------------------------------------------------------- C9
\* C9: the backend receives a query only after the start time, the limit and
\* the filters were accepted and the queries of all groups were built; a
\* request answered 400 has made no backend call.
C9_NoFetchBeforeValidation ==
    /\ (calls # <<>> \/ fetches # <<>>) =>
          /\ pc \in {"fetch", "done"}
          /\ ~(BadTimeRange(params) /\ Len(params.startTime) = 0)
          /\ ~BadLimit(params)
          /\ ~BadEscape(params)
          /\ ~BuilderRejects(params)
          /\ Len(queries) = (IF Len(filterGroups) > 1 THEN Len(filterGroups) ELSE 1)
    /\ result.code = StatusBadRequest => (calls = <<>> /\ fetches = <<>>)

\* the last of two groups is rejected after the first query was built
C9_Witness ==
    /\ pc = "done"
    /\ Len(filterGroups) = 2
    /\ Len(queries) = 1
    /\ result.code = StatusBadRequest
    /\ result.err[1] = "Can't build query: "
    /\ calls = <<>>

\* --------------------------------------------------------------------- C10
\* C10: parseFilters returns one group per '|' segment of the decoded string
\* (the number of '|' plus one), a segment without a pair of one '=' being an
\* empty group; with a '|' the parallel fetch is used, and each group, empty
\* or not, gets one query and one backend call, the empty group's query
\* having no filter pair.
C10_OneGroupPerSegment ==
    Parsed =>
        LET d == UnescapeVal(params.filters)
            n == Cardinality(SepPos(d, "|")) + 1
        IN  /\ Len(filterGroups) = n
            /\ \A g \in 1..n :
                   (\A c \in 1..Len(Segments(Segments(d, "|")[g], "&")) :
                        ~OneEquals(Segments(Segments(d, "|")[g], "&")[c]))
                   => filterGroups[g] = <<>>
            /\ via # "none" =>
                   /\ (via = "fetchParallel") <=> (n > 1)
                   /\ Len(queries) = n
                   /\ \A g \in 1..n : queries[g].filters = filterGroups[g]
            /\ ret # <<>> => Len(calls) = n

\* "k=7|kk": two backend calls, the second group's query without filters
C10_Witness ==
    /\ pc = "done"
    /\ params.filters = <<"k", "=", "7", "|", "k", "k">>
    /\ Len(calls) = 2
    /\ queries[2].filters = <<>>
    /\ \E j \in 1..Len(calls) : calls[j] = queries[2]
    /\ result.code = StatusOK

====
